---- MODULE Spec2Model ----
(***************************************************************************)
(* A model of bantling/gostream: the Stream / Finisher pipeline and the    *)
(* parallel execution engine doParallel.                                   *)
(*                                                                         *)
(* A transform (a func from Iter to Iter) is a sequence of stage           *)
(* records, applied left to right; the nil transform is the empty          *)
(* sequence.  The variables a chaining method captures in its closure      *)
(* (alreadyRead, skipped, elementsRead, done/sortedIter) live in the       *)
(* closure store sh.cl, indexed by the stage's id: they are created once,  *)
(* when the chaining method is called, and shared by every iterator the    *)
(* transform is later applied to.                                          *)
(***************************************************************************)
EXTENDS Integers, Sequences, FiniteSets, TLC

\* ---------------------------------------------------------------- bounds
\* longest finite source
MaxLen == 3
\* largest numItems / Skip / Limit argument
MaxN == 2
\* cap on generator invocations of an Iterate source (an unbounded loop is cut here)
MaxGen == 4

\* ------------------------------------------------------ program constants
DefaultNumberOfParallelItems == 50

NumberOfGoroutines == "NumberOfGoroutines"

NumberOfItemsPerGoroutine == "NumberOfItemsPerGoroutine"

\* ----------------------------------------------------------- input sets
\* element values of the finite sources
Elements == {1, 2}

RECURSIVE SeqsUpTo(_)
SeqsUpTo(n) ==
  IF n = 0 THEN {<<>>}
  ELSE LET S == SeqsUpTo(n - 1)
       IN  S \cup {Append(s, e) : s \in {t \in S : Len(t) = n - 1}, e \in Elements}

\* the goroutine id of the caller of a terminal method; worker i has id i >= 1
Caller == 0

\* ------------------------------------------------- user-supplied functions
\* Map functions: "dbl" doubles, "boom" is the identity but panics on 2
MapFn(f, v) == IF f = "dbl" THEN 2 * v ELSE v

MapPanics(f, v) == f = "boom" /\ v = 2

\* Filter predicates supplied by the user
UserPred(f, v) ==
  CASE f = "odd"     -> v % 2 = 1
    [] f = "lt3"     -> v < 3
    [] f = "lt5"     -> v < 5
    [] f = "not_odd" -> ~(v % 2 = 1)
    [] f = "not_lt3" -> ~(v < 3)
    [] OTHER         -> TRUE

\* the predicate FilterNot builds from f: func(element) bool { return !f(element) }
Not(f) == IF f = "odd" THEN "not_odd" ELSE "not_lt3"

\* Mutant of Less: ReverseSorted's comparator calls less with its operands swapped
LessSwapsOperands(f, a, b) ==
  CASE f = "lt"      -> a < b
    [] f = "lt_mod2" -> (a % 2) < (b % 2)
    [] OTHER         -> b < a

\* comparators: "lt" is IntSortFunc; "lt_mod2" compares the remainders modulo 2, so
\* that different elements can tie; "not_lt" is what ReverseSorted builds from "lt"
Less(f, a, b) ==
  CASE f = "lt"      -> a < b
    [] f = "lt_mod2" -> (a % 2) < (b % 2)
    [] OTHER         -> ~(a < b)

\* the functions handed to Reduce: neither commutative nor associative
ReduceFn(f, acc, v) == IF f = "sub" THEN acc - v ELSE 2 * acc + v

\* the generator function handed to Iterate
IterateF(v) == 2 * v

\* seed handed to Iterate
Seed == 1

\* ---------------------------------------------------------------- stages
Stage(op, f, n, id) == [op |-> op, f |-> f, n |-> n, id |-> id]

\* the captured variables of one chaining call, as first created
ZeroClosure ==
  [alreadyRead |-> {}, skipped |-> FALSE, elementsRead |-> 0,
   done |-> FALSE, sorted |-> <<>>, sortedPos |-> 0, by |-> {}]

\* Mutant of compose: the new transform runs before the old one
composeSwapped(f1, f2) == IF f1 = <<>> THEN f2 ELSE f2 \o f1

\* compose: f2 after f1; a nil f1 degenerates to f2
compose(f1, f2) == IF f1 = <<>> THEN f2 ELSE f1 \o f2

\* Mutant of composePanics: the nil check is missing
composeNeverPanics(f1, f2) == FALSE

\* if f2 == nil { panic("compose: f2 cannot be nil") }
composePanics(f1, f2) == f2 = <<>>

\* ---------------------------------------------------------- constructors
construct(source, finite) == [source |-> source, transform |-> <<>>, finite |-> finite]

Of(items) == construct([kind |-> "slice", items |-> items], TRUE)

Iterate(seed) == construct([kind |-> "gen", items |-> <<seed>>], FALSE)

\* ------------------------------------------------------ Stream transforms
\* Mutant of StreamTransform: the finite field is not copied and keeps its zero value
StreamTransformDropsFinite(s, t) ==
  [source |-> s.source, transform |-> compose(s.transform, t), finite |-> FALSE]

StreamTransform(s, t) ==
  [source |-> s.source, transform |-> compose(s.transform, t), finite |-> s.finite]

StreamFilter(s, f) == StreamTransform(s, <<Stage("Filter", f, 0, 0)>>)

StreamFilterNot(s, f) == StreamFilter(s, Not(f))

StreamMap(s, f) == StreamTransform(s, <<Stage("Map", f, 0, 0)>>)

StreamPeek(s) == StreamTransform(s, <<Stage("Peek", "log", 0, 0)>>)

AndThen(s) == [source |-> s, transform |-> <<>>]

\* ---------------------------------------------------- Finisher transforms
\* the closure a Finisher chaining call creates gets the next free slot
NewClosure(fin) == Len(fin.transform) + 1

FinisherTransform(fin, t) ==
  [source |-> fin.source, transform |-> compose(fin.transform, t)]

FinisherFilter(fin, f, id) == FinisherTransform(fin, <<Stage("Filter", f, 0, id)>>)

Distinct(fin) == FinisherFilter(fin, "distinct", NewClosure(fin))

\* Mutant of Duplicates: the predicate lets the first occurrence through, as Distinct's
DuplicatesPassesFirst(fin) == FinisherFilter(fin, "distinct", NewClosure(fin))

Duplicates(fin) == FinisherFilter(fin, "duplicates", NewClosure(fin))

Skip(fin, n) == FinisherTransform(fin, <<Stage("Skip", "", n, NewClosure(fin))>>)

Limit(fin, n) == FinisherTransform(fin, <<Stage("Limit", "", n, NewClosure(fin))>>)

Sorted(fin, less) == FinisherTransform(fin, <<Stage("Sorted", less, 0, NewClosure(fin))>>)

ReverseSorted(fin, less) == Sorted(fin, IF less = "lt" THEN "not_lt" ELSE "lt")

\* ------------------------------------------------------------- iterators
\* what one call of Next on an iterator gives: hasNext, the value, the source
\* iterator and the shared state afterwards, and whether a user function panicked
Ret(ok, val, it, sh, pan) == [ok |-> ok, val |-> val, it |-> it, sh |-> sh, pan |-> pan]

\* the iterator of a source: a slice cursor, or the generator closure of Iterate.
\* With it travels the record of the iterators built on top of it: ended holds the
\* stages whose iterator has answered false (0 is the source itself), again those
\* that were asked once more after that.
SourceIter(source) ==
  [kind |-> source.kind, items |-> source.items, pos |-> 0, calls |-> 0,
   ended |-> {}, again |-> {}]

\* goiter.OfElements(row): a fresh cursor over a slice
OfElements(row) ==
  [kind |-> "slice", items |-> row, pos |-> 0, calls |-> 0, ended |-> {}, again |-> {}]

\* state shared by every iterator of a pipeline: the closure store, the number of
\* generator invocations and the elements Peek's function was called with
ZeroShared(fin) ==
  [cl |-> [k \in 1..Len(fin.transform) |-> ZeroClosure], gen |-> 0, peeks |-> <<>>]

\* Mutant of Alloc: the chaining call starts every closure of the pipeline afresh
AllocReset(sh) == [sh EXCEPT !.cl = [k \in 1..(Len(@) + 1) |-> ZeroClosure]]

\* the variables a Finisher chaining call declares before it builds its transform
\* (alreadyRead, skipped, elementsRead, sortedIter and done): a new closure
Alloc(sh) == [sh EXCEPT !.cl = Append(@, ZeroClosure)]

\* goroutine who reads or writes the captured variables of closure id
Touch(sh, id, who) == [sh EXCEPT !.cl[id].by = @ \cup {who}]

\* Next on the source iterator; calls counts how often it has been asked
BaseNext(it, sh) ==
  IF it.kind = "gen"
  THEN LET acc == IterateF(it.items[1])
       IN  Ret(TRUE, acc, [it EXCEPT !.items = <<acc>>, !.calls = @ + 1],
               [sh EXCEPT !.gen = @ + 1], FALSE)
  ELSE IF it.pos < Len(it.items)
       THEN Ret(TRUE, it.items[it.pos + 1], [it EXCEPT !.pos = @ + 1, !.calls = @ + 1],
                sh, FALSE)
       ELSE Ret(FALSE, 0, [it EXCEPT !.calls = @ + 1], sh, FALSE)

\* Mutant of Pred: alreadyRead[element] = true is left out
PredNeverRecords(st, v, sh, who) ==
  IF st.f \in {"distinct", "duplicates"}
  THEN [b |-> st.f = "distinct", sh |-> Touch(sh, st.id, who)]
  ELSE [b |-> UserPred(st.f, v), sh |-> sh]

\* the predicate a Filter stage calls: the user's, or the closure of Distinct / Duplicates
Pred(st, v, sh, who) ==
  IF st.f \in {"distinct", "duplicates"}
  THEN LET t == Touch(sh, st.id, who)
       IN  IF v \notin t.cl[st.id].alreadyRead
           THEN [b |-> st.f = "distinct", sh |-> [t EXCEPT !.cl[st.id].alreadyRead = @ \cup {v}]]
           ELSE [b |-> st.f = "duplicates", sh |-> t]
  ELSE [b |-> UserPred(st.f, v), sh |-> sh]

\* insertion of data[i] into the sorted prefix, as sort.Slice does for short slices
RECURSIVE InsertDown(_, _, _)
InsertDown(data, j, less) ==
  IF j > 1 /\ Less(less, data[j], data[j - 1])
  THEN InsertDown([data EXCEPT ![j] = data[j - 1], ![j - 1] = data[j]], j - 1, less)
  ELSE data

RECURSIVE InsertionSort(_, _, _)
InsertionSort(data, i, less) ==
  IF i > Len(data) THEN data ELSE InsertionSort(InsertDown(data, i, less), i + 1, less)

SortSlice(data, less) == InsertionSort(data, 2, less)

RECURSIVE IterNext(_, _, _, _, _)
RECURSIVE StageNext(_, _, _, _, _)
RECURSIVE FilterNext(_, _, _, _, _)
RECURSIVE SkipLoop(_, _, _, _, _, _)
RECURSIVE Drain(_, _, _, _, _, _)

\* Mutant of Drain: after the false that ends the loop Next is asked once more
DrainAsksAgain(chain, k, it, sh, who, out) ==
  LET r == IterNext(chain, k, it, sh, who)
  IN  IF r.pan
      THEN [out |-> out, it |-> r.it, sh |-> r.sh, pan |-> TRUE]
      ELSE IF ~r.ok
           THEN LET q == IterNext(chain, k, r.it, r.sh, who)
                IN  [out |-> out, it |-> q.it, sh |-> q.sh, pan |-> q.pan]
           ELSE Drain(chain, k, r.it, r.sh, who, Append(out, r.val))

\* Iter.ToSlice: Next until it answers false
Drain(chain, k, it, sh, who, out) ==
  LET r == IterNext(chain, k, it, sh, who)
  IN  IF r.pan \/ ~r.ok
      THEN [out |-> out, it |-> r.it, sh |-> r.sh, pan |-> r.pan]
      ELSE Drain(chain, k, r.it, r.sh, who, Append(out, r.val))

\* Mutant of FilterNext: the iterator ends at the first element the predicate rejects
FilterNextStopsAtReject(chain, k, it, sh, who) ==
  LET r == IterNext(chain, k - 1, it, sh, who)
  IN  IF r.pan \/ ~r.ok
      THEN r
      ELSE LET p == Pred(chain[k], r.val, r.sh, who)
           IN  IF p.b
               THEN Ret(TRUE, r.val, r.it, p.sh, FALSE)
               ELSE Ret(FALSE, 0, r.it, p.sh, FALSE)

\* the iterator Filter builds: loop until the predicate holds or upstream ends
FilterNext(chain, k, it, sh, who) ==
  LET r == IterNext(chain, k - 1, it, sh, who)
  IN  IF r.pan \/ ~r.ok
      THEN r
      ELSE LET p == Pred(chain[k], r.val, r.sh, who)
           IN  IF p.b
               THEN Ret(TRUE, r.val, r.it, p.sh, FALSE)
               ELSE FilterNext(chain, k, r.it, p.sh, who)

\* the iterator Map builds
MapNext(chain, k, it, sh, who) ==
  LET r == IterNext(chain, k - 1, it, sh, who)
  IN  IF r.pan \/ ~r.ok
      THEN r
      ELSE IF MapPanics(chain[k].f, r.val)
           THEN [r EXCEPT !.pan = TRUE]
           ELSE [r EXCEPT !.val = MapFn(chain[k].f, r.val)]

\* Mutant of PeekNext: f is called on the value before the answer of it.Next() is
\* looked at, so also when the upstream has ended
PeekNextCallsFirst(chain, k, it, sh, who) ==
  LET r == IterNext(chain, k - 1, it, sh, who)
  IN  IF r.pan THEN r ELSE [r EXCEPT !.sh.peeks = Append(@, r.val)]

\* the iterator Peek builds
PeekNext(chain, k, it, sh, who) ==
  LET r == IterNext(chain, k - 1, it, sh, who)
  IN  IF r.pan \/ ~r.ok
      THEN r
      ELSE [r EXCEPT !.sh.peeks = Append(@, r.val)]

\* for i := 1; i <= n; i++ { if !it.Next() { return nil, false } }
SkipLoop(chain, k, it, sh, who, i) ==
  IF i > chain[k].n
  THEN Ret(TRUE, 0, it, sh, FALSE)
  ELSE LET r == IterNext(chain, k - 1, it, sh, who)
       IN  IF r.pan \/ ~r.ok THEN r ELSE SkipLoop(chain, k, r.it, r.sh, who, i + 1)

\* Mutant of SkipNext: the skipped flag is never set, so every pull skips again
SkipNextEveryPull(chain, k, it, sh, who) ==
  LET l == SkipLoop(chain, k, it, Touch(sh, chain[k].id, who), who, 1)
  IN  IF l.pan \/ ~l.ok THEN l ELSE IterNext(chain, k - 1, l.it, l.sh, who)

\* the iterator Skip builds
SkipNext(chain, k, it, sh, who) ==
  LET id == chain[k].id
      t  == Touch(sh, id, who)
  IN  IF ~t.cl[id].skipped
      THEN LET l == SkipLoop(chain, k, it, [t EXCEPT !.cl[id].skipped = TRUE], who, 1)
           IN  IF l.pan \/ ~l.ok THEN l ELSE IterNext(chain, k - 1, l.it, l.sh, who)
      ELSE IterNext(chain, k - 1, it, t, who)

\* Mutant of LimitNext: the upstream is pulled before the count is looked at
LimitNextPullsFirst(chain, k, it, sh, who) ==
  LET id == chain[k].id
      r  == IterNext(chain, k - 1, it, Touch(sh, id, who), who)
  IN  IF r.pan THEN r
      ELSE IF ~r.ok \/ r.sh.cl[id].elementsRead = chain[k].n
           THEN Ret(FALSE, 0, r.it, r.sh, FALSE)
           ELSE [r EXCEPT !.sh.cl[id].elementsRead = @ + 1]

\* the iterator Limit builds
LimitNext(chain, k, it, sh, who) ==
  LET id == chain[k].id
      t  == Touch(sh, id, who)
  IN  IF t.cl[id].elementsRead = chain[k].n
      THEN Ret(FALSE, 0, it, t, FALSE)
      ELSE LET r == IterNext(chain, k - 1, it, t, who)
           IN  IF r.pan \/ ~r.ok
               THEN r
               ELSE [r EXCEPT !.sh.cl[id].elementsRead = @ + 1]

\* Mutant of SortedNext: done is never looked at, every pull drains and sorts again
SortedNextDrainsAgain(chain, k, it, sh, who) ==
  LET id == chain[k].id
      d  == Drain(chain, k - 1, it, Touch(sh, id, who), who, <<>>)
      b  == SortSlice(d.out, chain[k].f)
  IN  IF d.pan THEN Ret(FALSE, 0, d.it, d.sh, TRUE)
      ELSE IF Len(b) > 0
           THEN Ret(TRUE, b[1], d.it,
                    [d.sh EXCEPT !.cl[id].sorted = b, !.cl[id].sortedPos = 1,
                                 !.cl[id].done = TRUE], FALSE)
           ELSE Ret(FALSE, 0, d.it,
                    [d.sh EXCEPT !.cl[id].sorted = b, !.cl[id].sortedPos = 0,
                                 !.cl[id].done = TRUE], FALSE)

\* the iterator Sorted builds
SortedNext(chain, k, it, sh, who) ==
  LET id == chain[k].id
      t  == Touch(sh, id, who)
      d  == Drain(chain, k - 1, it, t, who, <<>>)
      s  == IF t.cl[id].done
            THEN [it |-> it, sh |-> t, pan |-> FALSE]
            ELSE [it |-> d.it,
                  sh |-> IF d.pan THEN d.sh
                         ELSE [d.sh EXCEPT !.cl[id].sorted = SortSlice(d.out, chain[k].f),
                                           !.cl[id].sortedPos = 0,
                                           !.cl[id].done = TRUE],
                  pan |-> d.pan]
      c  == s.sh.cl[id]
  IN  IF s.pan THEN Ret(FALSE, 0, s.it, s.sh, TRUE)
      ELSE IF c.sortedPos < Len(c.sorted)
           THEN Ret(TRUE, c.sorted[c.sortedPos + 1], s.it,
                    [s.sh EXCEPT !.cl[id].sortedPos = @ + 1], FALSE)
           ELSE Ret(FALSE, 0, s.it, s.sh, FALSE)

\* the function behind the iterator that stage k of the chain builds; stage 0 is
\* the source
StageNext(chain, k, it, sh, who) ==
  IF k = 0 THEN BaseNext(it, sh)
  ELSE CASE chain[k].op = "Filter" -> FilterNext(chain, k, it, sh, who)
         [] chain[k].op = "Map"    -> MapNext(chain, k, it, sh, who)
         [] chain[k].op = "Peek"   -> PeekNext(chain, k, it, sh, who)
         [] chain[k].op = "Skip"   -> SkipNext(chain, k, it, sh, who)
         [] chain[k].op = "Limit"  -> LimitNext(chain, k, it, sh, who)
         [] chain[k].op = "Sorted" -> SortedNext(chain, k, it, sh, who)
         [] OTHER                  -> IterNext(chain, k - 1, it, sh, who)

\* an iterator that is asked: the note of its being asked after it answered false
Asked(it, k) == IF k \in it.ended THEN [it EXCEPT !.again = @ \cup {k}] ELSE it

\* an iterator that has answered: the note of its having answered false
Answered(r, k) == IF ~r.ok /\ ~r.pan THEN [r EXCEPT !.it.ended = @ \cup {k}] ELSE r

\* Next on the iterator of stage k, with the notes of whether it has answered false
\* before (goiter.Iter is documented to panic on such a call)
IterNext(chain, k, it, sh, who) ==
  Answered(StageNext(chain, k, Asked(it, k), sh, who), k)

\* the pass-through iterator that Stream.Iter and Finisher.Iter wrap around the chain
IterStage == Stage("Iter", "", 0, 0)

\* Stream.Iter: the source through the Stream's transform
StreamIter(s) == s.transform \o <<IterStage>>

\* Finisher.Iter: the Stream's iterator through the Finisher's transform
FinisherIter(fin) == StreamIter(fin.source) \o fin.transform \o <<IterStage>>

\* Finisher.ToSlice run to completion on a pipeline nobody has pulled from yet
ToSliceFresh(fin) ==
  LET c == FinisherIter(fin)
  IN  Drain(c, Len(c), SourceIter(fin.source.source), ZeroShared(fin), Caller, <<>>).out

\* ----------------------------------------------------------- partitioning
CeilDiv(a, b) == (a + b - 1) \div b

RECURSIVE Chunks(_, _)
Chunks(items, size) ==
  IF Len(items) = 0 THEN <<>>
  ELSE IF Len(items) <= size THEN <<items>>
       ELSE <<SubSeq(items, 1, size)>> \o Chunks(SubSeq(items, size + 1, Len(items)), size)

\* goiter SplitIntoColumns(n): n partitions of contiguous blocks of ceil(total/n)
SplitIntoColumns(items, n) == Chunks(items, CeilDiv(Len(items), n))

\* goiter SplitIntoRows(n): contiguous partitions of n items each
SplitIntoRows(items, n) == Chunks(items, n)

\* goiter.FlattenArraySlice: the rows one after the other, in index order
RECURSIVE FlattenArraySlice(_)
FlattenArraySlice(rows) ==
  IF Len(rows) = 0 THEN <<>> ELSE Head(rows) \o FlattenArraySlice(Tail(rows))

\* OfIterables: goiter.OfIterables iterates the iterables one after the other
OfIterables(iterables) ==
  construct([kind |-> "slice", items |-> FlattenArraySlice(iterables)], TRUE)

\* reflect's conversion of an int to the type of elementValue: an int8 keeps the low
\* eight bits (two's complement), an int keeps the value
ConvertTo(typ, v) == IF typ = "int8" THEN ((v + 128) % 256) - 128 ELSE v

\* goiter.FlattenArraySliceAsType: every element converted to the type of elementValue
FlattenArraySliceAsType(data, typ) == [i \in 1..Len(data) |-> ConvertTo(typ, data[i])]

\* ------------------------------------------------------------------ state
VARIABLES
  fin,        \* the Finisher the terminal method is called on
  terminal,   \* the terminal method called
  numItems,   \* argument of a parallel terminal
  flag,       \* argument of a parallel terminal
  pc,         \* where the calling goroutine is
  it,         \* the Stream's source iterator (shared by every materialisation)
  sh,         \* closure store, generator and Peek counters
  result,     \* what the terminal has accumulated, and finally returns
  transform,  \* doParallel's parameter transform
  finisher,   \* doParallel's parameter finisher
  splitData,  \* doParallel's partition array, reused as the result array
  next,       \* index of the next row the launch loop visits
  wg,         \* the WaitGroup counter
  w,          \* the worker goroutines, in launch order
  flatData,   \* doParallel's flatData
  finRuns,    \* how often the calling goroutine has applied finisher
  held,       \* the Stream and Finisher values the caller holds, oldest first
  ops,        \* the transforms handed to Transform so far, in call order
  firsts,     \* what the FindFirst calls so far have returned
  fcalls,     \* the elements the predicate of a match terminal was called with
  arg,        \* the predicate handed to a match terminal
  firstAt,    \* how many values the caller held at its first FindFirst (0: none yet)
  identity    \* the identity handed to Reduce

vars == <<fin, terminal, numItems, flag, pc, it, sh, result, transform, finisher,
          splitData, next, wg, w, flatData, finRuns, held, ops, firsts, fcalls, arg,
          firstAt, identity>>

session == <<held, ops, firsts, fcalls, arg, firstAt, identity>>

config == <<fin, terminal, numItems, flag>>

parVars == <<transform, finisher, splitData, next, wg, w, flatData, finRuns>>

SeqTerminals == {"ToSlice", "ToSliceOf", "Count", "ForEach", "Reduce"}

ParTerminals == {"ParallelToStream", "ParallelToSlice", "ParallelToSliceOf"}

\* ------------------------------------------------------------- pipelines
FiniteSources == {Of(items) : items \in SeqsUpTo(MaxLen)}

StreamChains(s) ==
  {s, StreamMap(s, "dbl"), StreamMap(StreamFilter(s, "odd"), "dbl"), StreamPeek(s),
   StreamMap(s, "boom")}

\* the Finishers the sequential terminals are called on
SeqFinishers ==
  UNION {LET f == AndThen(s)
         IN  {f, Distinct(f), Sorted(f, "lt")}
             \cup {Skip(f, k) : k \in 0..MaxN}
             \cup {Limit(f, m) : m \in 0..MaxN}
             \cup {Limit(Skip(f, k), m) : k \in 0..MaxN, m \in 0..MaxN}
         : s \in UNION {StreamChains(s0) : s0 \in FiniteSources}}
  \cup
  UNION {LET f == AndThen(s)
         IN  {f} \cup {Limit(f, m) : m \in 0..MaxN}
         : s \in {Iterate(Seed), StreamPeek(Iterate(Seed))}}

\* the Finishers the parallel terminals are called on
ParFinishers ==
  UNION {LET f == AndThen(s)
         IN  {f, Distinct(f), Sorted(f, "lt"), Skip(f, 1), Limit(f, 1),
              Sorted(Distinct(f), "lt"), Limit(Skip(f, 1), 1)}
         : s \in UNION {StreamChains(s0) : s0 \in FiniteSources}}

\* the values the caller went through while building fin: construct's Stream, one
\* Stream per Stream chaining call, AndThen's Finisher, one Finisher per chaining call
Held(f) ==
  [k \in 1..(Len(f.source.transform) + 1) |->
     [f.source EXCEPT !.transform = SubSeq(f.source.transform, 1, k - 1)]]
  \o [k \in 1..(Len(f.transform) + 1) |->
        [f EXCEPT !.transform = SubSeq(f.transform, 1, k - 1)]]

\* the transforms those chaining calls handed to Transform
Calls(f) ==
  [k \in 1..Len(f.source.transform) |-> <<f.source.transform[k]>>]
  \o [k \in 1..Len(f.transform) |-> <<f.transform[k]>>]

InitCommon ==
  /\ pc = "call"
  /\ held = Held(fin)
  /\ ops = Calls(fin)
  /\ firsts = <<>>
  /\ fcalls = <<>>
  /\ arg = ""
  /\ firstAt = 0
  /\ identity = 0
  /\ it = SourceIter(fin.source.source)
  /\ sh = ZeroShared(fin)
  /\ result = <<>>
  /\ transform = <<>>
  /\ finisher = <<>>
  /\ splitData = <<>>
  /\ next = 1
  /\ wg = 0
  /\ w = <<>>
  /\ flatData = <<>>
  /\ finRuns = 0

\* ------------------------------------------------- sequential terminals
InitSeq ==
  /\ fin \in SeqFinishers
  /\ terminal \in SeqTerminals
  /\ numItems = 0
  /\ flag = NumberOfGoroutines
  /\ InitCommon

\* what a terminal starts from: the empty slice, the count 0, the identity of Reduce
Start(t) == IF t = "Count" THEN 0 ELSE <<>>

\* the loop body of a terminal on element v: append, count, call the consumer, or fold
\* (ForEach's consumer records its argument; Reduce's f appends the element to the list)
Body(t, acc, v) == IF t = "Count" THEN acc + 1 ELSE Append(acc, v)

\* the terminal method is entered and materialises fin.Iter()
SeqCall ==
  /\ pc = "call"
  /\ terminal \in SeqTerminals
  /\ pc' = "loop"
  /\ result' = Start(terminal)
  /\ UNCHANGED <<config, session, it, sh, parVars>>

\* Mutant of SeqPull: every pull is made on a new iterator over the source
SeqPullRestarts ==
  IterNext(FinisherIter(fin), Len(FinisherIter(fin)), SourceIter(fin.source.source), sh, Caller)

\* one evaluation of the loop condition it.Next() of the terminal
SeqPull == IterNext(FinisherIter(fin), Len(FinisherIter(fin)), it, sh, Caller)

\* it.Next() is true: the loop body runs
SeqYield ==
  /\ pc = "loop"
  /\ sh.gen < MaxGen
  /\ LET r == SeqPull
     IN  /\ r.ok /\ ~r.pan
         /\ it' = r.it
         /\ sh' = r.sh
         /\ result' = Body(terminal, result, r.val)
  /\ UNCHANGED <<config, session, pc, parVars>>

\* it.Next() is false: the loop ends and the terminal returns
SeqReturn ==
  /\ pc = "loop"
  /\ sh.gen < MaxGen
  /\ LET r == SeqPull
     IN  /\ ~r.ok /\ ~r.pan
         /\ it' = r.it
         /\ sh' = r.sh
  /\ pc' = "done"
  /\ UNCHANGED <<config, session, result, parVars>>

\* a user function panics during it.Next(): the panic reaches the caller
SeqPanic ==
  /\ pc = "loop"
  /\ sh.gen < MaxGen
  /\ LET r == SeqPull
     IN  /\ r.pan
         /\ it' = r.it
         /\ sh' = r.sh
  /\ pc' = "panicked"
  /\ UNCHANGED <<config, session, result, parVars>>

NextSeq == SeqCall \/ SeqYield \/ SeqReturn \/ SeqPanic

SpecSeq == InitSeq /\ [][NextSeq]_vars

\* --------------------------------------------------- parallel terminals
Init ==
  /\ fin \in ParFinishers
  /\ terminal \in ParTerminals
  /\ numItems \in 0..MaxN
  /\ flag \in {NumberOfGoroutines, NumberOfItemsPerGoroutine}
  /\ InitCommon

\* what ParallelToStream hands to doParallel: the iterator source (as the chain
\* that produces it), the transform and the finisher
ParallelToStreamArgs(f) ==
  [source |-> <<>>, transform |-> f.source.transform, finisher |-> f.transform]

\* what ParallelToSlice hands to doParallel
ParallelToSliceArgs(f) ==
  [source |-> StreamIter(f.source), transform |-> f.transform, finisher |-> f.transform]

\* what ParallelToSliceOf hands to doParallel
ParallelToSliceOfArgs(f) ==
  [source |-> <<>>, transform |-> f.source.transform, finisher |-> f.transform]

Args(t, f) ==
  CASE t = "ParallelToStream" -> ParallelToStreamArgs(f)
    [] t = "ParallelToSlice"  -> ParallelToSliceArgs(f)
    [] OTHER                  -> ParallelToSliceOfArgs(f)

\* n := DefaultNumberOfParallelItems; if numItems > 0 { n = numItems }
NumberOf(items) == IF items > 0 THEN items ELSE DefaultNumberOfParallelItems

\* the split doParallel asks for
Split(items, n, f) ==
  IF f = NumberOfGoroutines THEN SplitIntoColumns(items, n) ELSE SplitIntoRows(items, n)

\* the source drained by the calling goroutine (source.ToSlice() or source.SplitInto...)
SourceData == Drain(Args(terminal, fin).source, Len(Args(terminal, fin).source), it, sh, Caller, <<>>)

\* doParallel with a nil transform: flatData = source.ToSlice()
ParCallDirect ==
  /\ pc = "call"
  /\ terminal \in ParTerminals
  /\ Args(terminal, fin).transform = <<>>
  /\ ~SourceData.pan
  /\ it' = SourceData.it
  /\ sh' = SourceData.sh
  /\ transform' = Args(terminal, fin).transform
  /\ finisher' = Args(terminal, fin).finisher
  /\ flatData' = SourceData.out
  /\ pc' = "finisher"
  /\ UNCHANGED <<config, session, result, splitData, next, wg, w, finRuns>>

\* doParallel with a transform: the source is split into rows
ParCallSplit ==
  /\ pc = "call"
  /\ terminal \in ParTerminals
  /\ Args(terminal, fin).transform # <<>>
  /\ ~SourceData.pan
  /\ it' = SourceData.it
  /\ sh' = SourceData.sh
  /\ transform' = Args(terminal, fin).transform
  /\ finisher' = Args(terminal, fin).finisher
  /\ splitData' = Split(SourceData.out, NumberOf(numItems), flag)
  /\ pc' = IF Len(splitData') = 0 THEN "wait" ELSE "launch"
  /\ UNCHANGED <<config, session, result, next, wg, w, flatData, finRuns>>

\* a user function panics while the calling goroutine drains the source
ParCallPanic ==
  /\ pc = "call"
  /\ terminal \in ParTerminals
  /\ SourceData.pan
  /\ it' = SourceData.it
  /\ sh' = SourceData.sh
  /\ pc' = "panicked"
  /\ UNCHANGED <<config, session, result, parVars>>

\* Mutant of LaunchRow: the goroutine reads the loop variable row of the enclosing
\* loop instead of its own parameter, and sees the row of the last iteration
LaunchRowOfLoop(rows, i) == rows[Len(rows)]

\* the row the launch loop hands to worker i: for i, row := range splitData
LaunchRow(rows, i) == rows[i]

\* one iteration of the launch loop: wg.Add(1); go func(i, row) {...}(i, row)
Launch ==
  /\ pc = "launch"
  /\ next <= Len(splitData)
  /\ wg' = wg + 1
  /\ w' = Append(w, [st |-> "run", it |-> OfElements(LaunchRow(splitData, next)), out |-> <<>>])
  /\ next' = next + 1
  /\ pc' = IF next' > Len(splitData) THEN "wait" ELSE "launch"
  /\ UNCHANGED <<config, session, it, sh, result, transform, finisher, splitData, flatData, finRuns>>

\* one it.Next() of worker i inside transform(goiter.OfElements(row)).ToSlice().
\* A pull is one step: when the workers share closure variables (a data race) the
\* interleavings of whole pulls are the outcomes modelled, together with the
\* runtime's fault on a concurrently used map (ConcurrentMapFault).
WorkerPull(i) == IterNext(transform, Len(transform), w[i].it, sh, i)

\* the pull yields an element: ToSlice appends it
WorkerYield(i) ==
  /\ pc # "crashed"
  /\ w[i].st = "run"
  /\ WorkerPull(i).ok /\ ~WorkerPull(i).pan
  /\ w' = [w EXCEPT ![i].it = WorkerPull(i).it, ![i].out = Append(@, WorkerPull(i).val)]
  /\ sh' = WorkerPull(i).sh
  /\ UNCHANGED <<config, session, pc, it, result, transform, finisher, splitData, next, wg, flatData, finRuns>>

\* Mutant of WriteSlot: the goroutine uses the loop variable i of the enclosing loop,
\* which has reached the last index
WriteSlotOfLoop(rows, i, out) == [rows EXCEPT ![Len(rows)] = out]

\* splitData[i] = ...
WriteSlot(rows, i, out) == [rows EXCEPT ![i] = out]

\* the pull answers false: ToSlice returns and the worker stores its row
WorkerWrite(i) ==
  /\ pc # "crashed"
  /\ w[i].st = "run"
  /\ ~WorkerPull(i).ok /\ ~WorkerPull(i).pan
  /\ w' = [w EXCEPT ![i].it = WorkerPull(i).it, ![i].st = "written"]
  /\ sh' = WorkerPull(i).sh
  /\ splitData' = WriteSlot(splitData, i, w[i].out)
  /\ UNCHANGED <<config, session, pc, it, result, transform, finisher, next, wg, flatData, finRuns>>

\* a user function panics inside the worker: the goroutine starts to unwind
WorkerPanic(i) ==
  /\ pc # "crashed"
  /\ w[i].st = "run"
  /\ WorkerPull(i).pan
  /\ w' = [w EXCEPT ![i].it = WorkerPull(i).it, ![i].st = "panicking"]
  /\ sh' = WorkerPull(i).sh
  /\ UNCHANGED <<config, session, pc, it, result, transform, finisher, splitData, next, wg, flatData, finRuns>>

\* defer wg.Done(): runs when the goroutine function returns, and also while a
\* panic unwinds it
WorkerDone(i) ==
  /\ pc # "crashed"
  /\ w[i].st \in {"written", "panicking"}
  /\ wg' = wg - 1
  /\ w' = [w EXCEPT ![i].st = IF w[i].st = "written" THEN "exited" ELSE "dying"]
  /\ UNCHANGED <<config, session, pc, it, sh, result, transform, finisher, splitData, next, flatData, finRuns>>

\* nothing recovers the panic of a worker: once its deferred calls have run, the
\* runtime ends the process, whatever the other goroutines are doing
RuntimeExit ==
  /\ pc # "crashed"
  /\ \E i \in DOMAIN w : w[i].st = "dying"
  /\ pc' = "crashed"
  /\ UNCHANGED <<config, session, it, sh, result, parVars>>

\* two running workers use the map of one Distinct / Duplicates closure: the
\* runtime may detect the concurrent map access and end the process
ConcurrentMapFault ==
  /\ pc # "crashed"
  /\ \E k \in DOMAIN transform, i, j \in DOMAIN w :
       /\ transform[k].f \in {"distinct", "duplicates"}
       /\ i # j
       /\ w[i].st = "run" /\ w[j].st = "run"
       /\ {i, j} \subseteq sh.cl[transform[k].id].by
  /\ pc' = "crashed"
  /\ UNCHANGED <<config, session, it, sh, result, parVars>>

\* wg.Wait() returns, and the rows are flattened
Wait ==
  /\ pc = "wait"
  /\ wg = 0
  /\ flatData' = FlattenArraySlice(splitData)
  /\ pc' = "finisher"
  /\ UNCHANGED <<config, session, it, sh, result, transform, finisher, splitData, next, wg, w, finRuns>>

\* finisher != nil: flatData = finisher(goiter.Of(flatData...)).ToSlice()
ApplyFinisher ==
  /\ pc = "finisher"
  /\ finisher # <<>>
  /\ LET d == Drain(finisher, Len(finisher), OfElements(flatData), sh, Caller, <<>>)
     IN  /\ flatData' = d.out
         /\ sh' = d.sh
  /\ finRuns' = finRuns + 1
  /\ pc' = "return"
  /\ UNCHANGED <<config, session, it, result, transform, finisher, splitData, next, wg, w>>

\* finisher == nil
NoFinisher ==
  /\ pc = "finisher"
  /\ finisher = <<>>
  /\ pc' = "return"
  /\ UNCHANGED <<config, session, it, sh, result, parVars>>

\* what the parallel terminal makes of doParallel's slice
Returned(t, data) ==
  CASE t = "ParallelToStream" -> Of(data)
    [] t = "ParallelToSlice"  -> data
    [] OTHER                  -> FlattenArraySliceAsType(data, "int")

\* doParallel returns flatData and the terminal returns to its caller
Return ==
  /\ pc = "return"
  /\ result' = Returned(terminal, flatData)
  /\ pc' = "done"
  /\ UNCHANGED <<config, session, it, sh, parVars>>

Next ==
  \/ ParCallDirect
  \/ ParCallSplit
  \/ ParCallPanic
  \/ Launch
  \/ \E i \in DOMAIN w : WorkerYield(i)
  \/ \E i \in DOMAIN w : WorkerWrite(i)
  \/ \E i \in DOMAIN w : WorkerPanic(i)
  \/ \E i \in DOMAIN w : WorkerDone(i)
  \/ RuntimeExit
  \/ ConcurrentMapFault
  \/ Wait
  \/ ApplyFinisher
  \/ NoFinisher
  \/ Return

Spec == Init /\ [][Next]_vars

\* the steps of the goroutine that called the terminal
CallerStep ==
  \/ ParCallDirect
  \/ ParCallSplit
  \/ ParCallPanic
  \/ Launch
  \/ Wait
  \/ ApplyFinisher
  \/ NoFinisher
  \/ Return

\* the steps of worker goroutine i
WorkerStep(i) ==
  /\ i \in DOMAIN w
  /\ (WorkerYield(i) \/ WorkerWrite(i) \/ WorkerPanic(i) \/ WorkerDone(i))

\* what the Go scheduler and runtime are bound to do: run every goroutine that can
\* run, and end a process in which a goroutine has died of a panic.  Whether the
\* runtime notices a concurrent map access is left open.
Scheduled == CallerStep \/ (\E i \in DOMAIN w : WorkerStep(i)) \/ RuntimeExit

Fairness == WF_vars(Scheduled)

SpecFair == Spec /\ Fairness

\* ------------------------------------- a caller building and using a pipeline
\* most chaining calls (Transform and the methods built on it) of one caller
MaxOps == 2

\* longest finite source of a caller who builds the pipeline call by call
MaxSrc == 3

\* the Stream under the caller's hands
Cur == held[Len(held)]

\* the zero value of a Finisher variable that nothing has been assigned to yet
ZeroFinisher ==
  [source |-> [source |-> [kind |-> "nil", items |-> <<>>], transform |-> <<>>,
               finite |-> FALSE],
   transform |-> <<>>]

\* the caller has constructed a Stream with Of, OfIterables or Iterate and holds
\* nothing else
InitSession ==
  /\ held \in {<<Of(items)>> : items \in SeqsUpTo(MaxSrc)}
             \cup {<<OfIterables(<<a, b>>)>> : a, b \in SeqsUpTo(1)}
             \cup {<<Iterate(Seed)>>}
  /\ fin = ZeroFinisher
  /\ terminal = ""
  /\ numItems = 0
  /\ flag = NumberOfGoroutines
  /\ pc = "stream"
  /\ it = SourceIter(held[1].source)
  /\ sh = ZeroShared(ZeroFinisher)
  /\ result = <<>>
  /\ transform = <<>>
  /\ finisher = <<>>
  /\ splitData = <<>>
  /\ next = 1
  /\ wg = 0
  /\ w = <<>>
  /\ flatData = <<>>
  /\ finRuns = 0
  /\ ops = <<>>
  /\ firsts = <<>>
  /\ fcalls = <<>>
  /\ arg = ""
  /\ firstAt = 0
  /\ identity = 0

\* the Stream chaining calls the caller chooses from, each with the transform the
\* method hands to Transform; on an Iterate source only calls whose iterators
\* answer every Next (a Filter that rejects every later element never returns)
StreamCalls(s) ==
  {[val |-> StreamMap(s, "dbl"), t |-> <<Stage("Map", "dbl", 0, 0)>>],
   [val |-> StreamPeek(s), t |-> <<Stage("Peek", "log", 0, 0)>>],
   [val |-> StreamTransform(s, <<>>), t |-> <<>>]}
  \cup (IF s.finite
        THEN {[val |-> StreamFilter(s, "odd"), t |-> <<Stage("Filter", "odd", 0, 0)>>],
              [val |-> StreamFilterNot(s, "lt3"),
               t |-> <<Stage("Filter", "not_lt3", 0, 0)>>]}
        ELSE {})

\* the Finisher chaining calls the caller chooses from; on an Iterate source only
\* those that do not wait for the end of their input
FinisherCalls(f) ==
  {[val |-> Skip(f, 1), t |-> <<Stage("Skip", "", 1, NewClosure(f))>>],
   [val |-> FinisherTransform(f, <<>>), t |-> <<>>]}
  \cup {[val |-> Limit(f, m), t |-> <<Stage("Limit", "", m, NewClosure(f))>>] : m \in 1..MaxN}
  \cup (IF f.source.finite
        THEN {[val |-> Distinct(f), t |-> <<Stage("Filter", "distinct", 0, NewClosure(f))>>],
              [val |-> Duplicates(f),
               t |-> <<Stage("Filter", "duplicates", 0, NewClosure(f))>>],
              [val |-> Sorted(f, "lt"), t |-> <<Stage("Sorted", "lt", 0, NewClosure(f))>>],
              [val |-> ReverseSorted(f, "lt"),
               t |-> <<Stage("Sorted", "not_lt", 0, NewClosure(f))>>],
              [val |-> FinisherFilter(f, "lt3", NewClosure(f)),
               t |-> <<Stage("Filter", "lt3", 0, NewClosure(f))>>]}
        ELSE {})

\* a chaining call on the Stream: compose panics on a nil transform, otherwise the
\* caller holds one more Stream
ChainStream ==
  /\ pc = "stream"
  /\ Len(ops) < MaxOps
  /\ \E c \in StreamCalls(Cur) :
       /\ ops' = Append(ops, c.t)
       /\ IF composePanics(Cur.transform, c.t)
          THEN pc' = "panicked" /\ held' = held
          ELSE pc' = pc /\ held' = Append(held, c.val)
  /\ UNCHANGED <<config, it, sh, result, parVars, firsts, fcalls, arg, firstAt, identity>>

\* s.AndThen()
CallAndThen ==
  /\ pc = "stream"
  /\ fin' = AndThen(Cur)
  /\ held' = Append(held, fin')
  /\ pc' = "fin"
  /\ UNCHANGED <<terminal, numItems, flag, it, sh, result, parVars, ops, firsts, fcalls, arg,
                 firstAt, identity>>

\* a chaining call on the Finisher: on an unused one, or after the first FindFirst
ChainFinisher ==
  /\ pc = "fin"
  /\ Len(firsts) <= 1
  /\ Len(ops) < MaxOps
  /\ \E c \in FinisherCalls(fin) :
       /\ ops' = Append(ops, c.t)
       /\ IF composePanics(fin.transform, c.t)
          THEN pc' = "panicked" /\ held' = held /\ fin' = fin /\ sh' = sh
          ELSE pc' = pc /\ held' = Append(held, c.val) /\ fin' = c.val /\ sh' = Alloc(sh)
  /\ UNCHANGED <<terminal, numItems, flag, it, result, parVars, firsts, fcalls, arg, firstAt, identity>>

\* gooptional.Of(val): empty when FindFirst's it.Next() answered false and val is nil
Optional(ok, v) == [present |-> ok, val |-> IF ok THEN v ELSE 0]

\* the values inside the non-empty Optionals of a list
RECURSIVE Values(_)
Values(opts) ==
  IF Len(opts) = 0 THEN <<>>
  ELSE (IF Head(opts).present THEN <<Head(opts).val>> ELSE <<>>) \o Values(Tail(opts))

\* fin.FindFirst(): materialise the pipeline, one it.Next(), wrap the value.  The
\* caller stops asking once a FindFirst has come back empty.
FindFirst ==
  /\ pc = "fin"
  /\ sh.gen < MaxGen
  /\ \A k \in DOMAIN firsts : firsts[k].present
  /\ LET r == IterNext(fin.source.transform \o fin.transform,
                       Len(fin.source.transform \o fin.transform), it, sh, Caller)
     IN  /\ ~r.pan
         /\ it' = r.it
         /\ sh' = r.sh
         /\ firsts' = Append(firsts, Optional(r.ok, r.val))
  /\ firstAt' = IF firstAt = 0 THEN Len(held) ELSE firstAt
  /\ UNCHANGED <<config, pc, result, parVars, held, ops, fcalls, arg, identity>>

\* fin.ToSlice() is entered: it materialises fin.Iter() and starts its loop
CallToSlice ==
  /\ pc = "fin"
  /\ \A k \in DOMAIN firsts : firsts[k].present
  /\ terminal' = "ToSlice"
  /\ result' = Start("ToSlice")
  /\ pc' = "loop"
  /\ UNCHANGED <<fin, numItems, flag, it, sh, parVars, session>>

MatchTerminals == {"AllMatch", "AnyMatch", "NoneMatch"}

\* allMatch := true, anyMatch := false, noneMatch := true
StartMatch(t) == t # "AnyMatch"

\* what the loop body assigns to allMatch / anyMatch / noneMatch from f(it.Value())
MatchBody(t, b) == IF t = "NoneMatch" THEN ~b ELSE b

\* Mutant of MatchBreaks: the loop has no break
MatchNeverBreaks(t, m) == FALSE

\* the condition under which the loop body breaks, m being the variable just assigned
MatchBreaks(t, m) == IF t = "AnyMatch" THEN m ELSE ~m

\* fin.AllMatch(f), fin.AnyMatch(f) or fin.NoneMatch(f) is entered on an unused Finisher
CallMatch ==
  /\ pc = "fin"
  /\ firsts = <<>>
  /\ \E t \in MatchTerminals, f \in {"lt3", "not_lt3"} :
       /\ terminal' = t
       /\ arg' = f
       /\ result' = StartMatch(t)
  /\ pc' = "match"
  /\ UNCHANGED <<fin, numItems, flag, it, sh, parVars, held, ops, firsts, fcalls, firstAt, identity>>

\* it.Next() is true: f is called on the element, and the loop breaks or goes on
MatchYield ==
  /\ pc = "match"
  /\ sh.gen < MaxGen
  /\ LET r == SeqPull
     IN  /\ r.ok /\ ~r.pan
         /\ it' = r.it
         /\ sh' = r.sh
         /\ fcalls' = Append(fcalls, r.val)
         /\ result' = MatchBody(terminal, UserPred(arg, r.val))
  /\ pc' = IF MatchBreaks(terminal, result') THEN "done" ELSE "match"
  /\ UNCHANGED <<config, parVars, held, ops, firsts, arg, firstAt, identity>>

\* it.Next() is false: the loop ends and the variable is returned
MatchReturn ==
  /\ pc = "match"
  /\ sh.gen < MaxGen
  /\ LET r == SeqPull
     IN  /\ ~r.ok /\ ~r.pan
         /\ it' = r.it
         /\ sh' = r.sh
  /\ pc' = "done"
  /\ UNCHANGED <<config, result, parVars, session>>

\* the user functions of this caller never panic, so no pull ends in a panic
NextSession ==
  \/ ChainStream
  \/ CallAndThen
  \/ ChainFinisher
  \/ FindFirst
  \/ CallToSlice
  \/ SeqYield
  \/ SeqReturn
  \/ CallMatch
  \/ MatchYield
  \/ MatchReturn

SpecSession == InitSession /\ [][NextSession]_vars

\* ------------------------------------------- the folding terminals, one call
\* the example of the Stream doc comment: Given(1,3,1,2,9,7,2,4,7,5,8,6,8)
Example == <<1, 3, 1, 2, 9, 7, 2, 4, 7, 5, 8, 6, 8>>

FoldTerminals == {"Reduce", "Max", "Min", "ToSlice"}

\* the sources of the folded pipelines: the short ones and the prefixes of the example
FoldSources ==
  FiniteSources \cup {Of(SubSeq(Example, 1, n)) : n \in 0..Len(Example)}

\* Filter(i < 5).Map(i * 2) as in the doc comment, and shorter chains
FoldStreams(s) == {s, StreamMap(s, "dbl"), StreamMap(StreamFilter(s, "lt5"), "dbl")}

\* the Finishers the folding terminals are called on
FoldFinishers ==
  UNION {{AndThen(s), Limit(AndThen(s), 0), Distinct(AndThen(s))}
         : s \in UNION {FoldStreams(s0) : s0 \in FoldSources}}
  \cup {Limit(AndThen(Iterate(Seed)), m) : m \in 0..MaxN}

\* the functions a folding terminal can be handed
FoldArgs(t) ==
  CASE t = "Reduce"          -> {"sub", "twice_plus"}
    [] t \in {"Max", "Min"} -> {"lt", "lt_mod2"}
    [] OTHER                 -> {""}

InitFold ==
  /\ fin \in FoldFinishers
  /\ terminal \in FoldTerminals
  /\ numItems = 0
  /\ flag = NumberOfGoroutines
  /\ InitCommon

\* result := identity; var max interface{}; var min interface{}; array := []interface{}{}
\* (an interface variable is a pair: whether it holds a value, and the value)
FoldStart(t, id) ==
  CASE t = "Reduce"          -> id
    [] t \in {"Max", "Min"} -> Optional(FALSE, 0)
    [] OTHER                 -> <<>>

\* the terminal is entered with its arguments and materialises fin.Iter()
FoldCall ==
  /\ pc = "call"
  /\ terminal \in FoldTerminals
  /\ \E f \in FoldArgs(terminal), id \in {0, 5} :
       /\ arg' = f
       /\ identity' = IF terminal = "Reduce" THEN id ELSE 0
       /\ result' = FoldStart(terminal, identity')
  /\ pc' = IF terminal \in {"Max", "Min"} THEN "first" ELSE "loop"
  /\ UNCHANGED <<config, it, sh, parVars, held, ops, firsts, fcalls, firstAt>>

\* Max and Min: if it := fin.Iter(); it.Next() { max = it.Value(); ... }
FoldFirst ==
  /\ pc = "first"
  /\ sh.gen < MaxGen
  /\ LET r == SeqPull
     IN  /\ ~r.pan
         /\ it' = r.it
         /\ sh' = r.sh
         /\ result' = IF r.ok THEN Optional(TRUE, r.val) ELSE result
         /\ pc' = IF r.ok THEN "loop" ELSE "done"
  /\ UNCHANGED <<config, session, parVars>>

\* the arguments the loop body calls the user's function with
FoldCalls(t, acc, v) ==
  CASE t = "Reduce" -> <<<<acc, v>>>>
    [] t = "Max"    -> <<<<acc.val, v>>>>
    [] t = "Min"    -> <<<<v, acc.val>>>>
    [] OTHER        -> <<>>

\* Mutant of FoldBody: Reduce hands f the element first and the accumulator second
FoldBodySwapsArguments(t, f, acc, v) ==
  CASE t = "Reduce" -> ReduceFn(f, v, acc)
    [] t = "Max"    -> IF Less(f, acc.val, v) THEN Optional(TRUE, v) ELSE acc
    [] t = "Min"    -> IF Less(f, v, acc.val) THEN Optional(TRUE, v) ELSE acc
    [] OTHER        -> Append(acc, v)

\* Mutant of FoldBody: Max and Min also replace the extreme by an element that ties
\* with it
FoldBodyTakesTies(t, f, acc, v) ==
  CASE t = "Reduce" -> ReduceFn(f, acc, v)
    [] t = "Max"    -> IF ~Less(f, v, acc.val) THEN Optional(TRUE, v) ELSE acc
    [] t = "Min"    -> IF ~Less(f, acc.val, v) THEN Optional(TRUE, v) ELSE acc
    [] OTHER        -> Append(acc, v)

\* the loop body: result = f(result, it.Value()); if less(max, element) { max = element };
\* if less(element, min) { min = element }; array = append(array, it.Value())
FoldBody(t, f, acc, v) ==
  CASE t = "Reduce" -> ReduceFn(f, acc, v)
    [] t = "Max"    -> IF Less(f, acc.val, v) THEN Optional(TRUE, v) ELSE acc
    [] t = "Min"    -> IF Less(f, v, acc.val) THEN Optional(TRUE, v) ELSE acc
    [] OTHER        -> Append(acc, v)

\* it.Next() is true: the loop body runs
FoldYield ==
  /\ pc = "loop"
  /\ sh.gen < MaxGen
  /\ LET r == SeqPull
     IN  /\ r.ok /\ ~r.pan
         /\ it' = r.it
         /\ sh' = r.sh
         /\ fcalls' = fcalls \o FoldCalls(terminal, result, r.val)
         /\ result' = FoldBody(terminal, arg, result, r.val)
  /\ UNCHANGED <<config, pc, parVars, held, ops, firsts, arg, firstAt, identity>>

\* it.Next() is false: the loop ends and the terminal returns its variable
FoldReturn ==
  /\ pc = "loop"
  /\ sh.gen < MaxGen
  /\ LET r == SeqPull
     IN  /\ ~r.ok /\ ~r.pan
         /\ it' = r.it
         /\ sh' = r.sh
  /\ pc' = "done"
  /\ UNCHANGED <<config, result, parVars, session>>

NextFold == FoldCall \/ FoldFirst \/ FoldYield \/ FoldReturn

SpecFold == InitFold /\ [][NextFold]_vars

\* ------------------------------------------------------ claims, sequential
\* the Finisher is built on Iterate and no Limit was chained
InfiniteFinisher ==
  /\ ~fin.source.finite
  /\ \A k \in DOMAIN fin.transform : fin.transform[k].op # "Limit"

\* C4: a consuming terminal called on a Finisher built from Iterate with no Limit
\* panics with ErrInfiniteFinisher before any element is pulled: the generator is
\* never invoked by the call, and the call ends in no other way than the panic.
C4_InfiniteFinisherPanics ==
  InfiniteFinisher => (sh.gen = 0 /\ pc \in {"call", "loop", "panicked"})

\* the first n values of the generator: f(seed), f(f(seed)), ...
RECURSIVE Iterates(_, _)
Iterates(v, n) == IF n = 0 THEN <<>> ELSE <<IterateF(v)>> \o Iterates(IterateF(v), n - 1)

\* the pipeline is Iterate(seed, f) [.Peek] .AndThen().Limit(n)
IterateLimit ==
  /\ fin.source.source.kind = "gen"
  /\ Len(fin.transform) = 1
  /\ fin.transform[1].op = "Limit"

\* C9: on Iterate(seed, f).AndThen().Limit(n) a consuming terminal ends after the
\* generator was invoked exactly n times and returns the next n generated values;
\* the generator is never invoked more than n times, one invocation per element
\* yielded, and the loop is never cut by the cap MaxGen.
C9_LimitEndsIterate ==
  IterateLimit =>
    LET n == fin.transform[1].n
    IN  /\ sh.gen <= n
        /\ pc # "panicked"
        /\ pc = "loop" =>
             /\ sh.gen < MaxGen
             /\ sh.gen = (IF terminal = "Count" THEN result ELSE Len(result))
        /\ pc = "done" =>
             /\ sh.gen = n
             /\ result = (IF terminal = "Count" THEN n ELSE Iterates(Seed, n))

C9_Witness ==
  /\ IterateLimit
  /\ pc = "done"
  /\ terminal = "ToSlice"
  /\ fin.transform[1].n = 2
  /\ sh.gen = 2
  /\ result = <<2, 4>>

\* the pipeline is Of(items).AndThen().Skip(k).Limit(m)
SkipLimit ==
  /\ fin.source.source.kind = "slice"
  /\ fin.source.transform = <<>>
  /\ Len(fin.transform) = 2
  /\ fin.transform[1].op = "Skip"
  /\ fin.transform[2].op = "Limit"

Min(a, b) == IF a <= b THEN a ELSE b

\* C10: Skip(k).Limit(m) over a source of length L yields max(0, min(m, L-k))
\* elements: the source elements at positions k+1 .. k+min(m, L-k), in order;
\* nothing when k >= L.
C10_SkipThenLimit ==
  (SkipLimit /\ pc = "done") =>
    LET items == fin.source.source.items
        L     == Len(items)
        k     == fin.transform[1].n
        m     == fin.transform[2].n
        want  == IF k >= L THEN <<>> ELSE SubSeq(items, k + 1, k + Min(m, L - k))
    IN  /\ Len(want) = (IF Min(m, L - k) > 0 THEN Min(m, L - k) ELSE 0)
        /\ result = (IF terminal = "Count" THEN Len(want) ELSE want)

C10_Witness ==
  /\ SkipLimit
  /\ pc = "done"
  /\ terminal = "ToSlice"
  /\ fin.source.source.items = <<2, 1, 2>>
  /\ fin.transform[1].n = 1
  /\ fin.transform[2].n = 2
  /\ result = <<1, 2>>

\* -------------------------------------------------------- claims, parallel
\* no worker goroutine has panicked
NoWorkerFailed == \A i \in DOMAIN w : w[i].st \notin {"panicking", "dying"}

\* the elements a parallel terminal returned
Items == IF terminal = "ParallelToStream" THEN result.source.items ELSE result

\* worker i has begun transform(goiter.OfElements(row)).ToSlice()
WorkerRan(i) == w[i].st # "run" \/ Len(w[i].out) > 0

\* the rows after the workers have run one after the other in index order
RECURSIVE RunRows(_, _, _, _)
RunRows(t, rows, i, s) ==
  IF i > Len(rows) THEN [rows |-> rows, sh |-> s]
  ELSE LET d == Drain(t, Len(t), OfElements(rows[i]), s, i, <<>>)
       IN  RunRows(t, [rows EXCEPT ![i] = d.out], i + 1, d.sh)

\* what doParallel returns for terminal t under that one schedule
InOrderData(f, t, n, fl) ==
  LET a    == Args(t, f)
      src  == Drain(a.source, Len(a.source), SourceIter(f.source.source), ZeroShared(f), Caller, <<>>)
      r    == RunRows(a.transform, Split(src.out, NumberOf(n), fl), 1, src.sh)
      flat == IF a.transform = <<>>
              THEN [data |-> src.out, sh |-> src.sh]
              ELSE [data |-> FlattenArraySlice(r.rows), sh |-> r.sh]
  IN  IF a.finisher = <<>> THEN flat.data
      ELSE Drain(a.finisher, Len(a.finisher), OfElements(flat.data), flat.sh, Caller, <<>>).out

\* C1: ParallelToSliceOf and ParallelToStream return, for every source, numItems and
\* flag, the elements the sequential ToSlice returns on an identically built
\* pipeline, in the same order.
C1_ParallelEqualsSequential ==
  (pc = "done" /\ terminal \in {"ParallelToStream", "ParallelToSliceOf"} /\ NoWorkerFailed)
    => Items = ToSliceFresh(fin)

C1_Witness ==
  /\ pc = "done"
  /\ terminal = "ParallelToSliceOf"
  /\ Len(w) >= 2
  /\ Len(fin.source.transform) = 2
  /\ Len(fin.transform) = 2
  /\ fin.source.source.items = <<1, 2, 1>>
  /\ result = <<2>>

\* C2: ParallelToSlice returns the same elements in the same order as
\* ParallelToStream on an identically built Finisher.
C2_ToSliceEqualsToStream ==
  (pc = "done" /\ terminal = "ParallelToSlice" /\ NoWorkerFailed)
    => result = InOrderData(fin, "ParallelToStream", numItems, flag)

\* C3: the result of a parallel call is the same in every interleaving of the
\* workers: it is the result of the schedule that runs them in index order.
C3_ParallelDeterministic ==
  (pc = "done" /\ NoWorkerFailed) => Items = InOrderData(fin, terminal, numItems, flag)

\* C5: no worker executes the Finisher's whole-sequence transform on a partition,
\* and by the time doParallel returns the calling goroutine has applied it exactly
\* once (never, when there is none).
C5_FinisherOnceByCaller ==
  /\ \A i \in DOMAIN w : WorkerRan(i) => ~(fin.transform # <<>> /\ transform = fin.transform)
  /\ pc \in {"return", "done"} => finRuns = (IF fin.transform = <<>> THEN 0 ELSE 1)

\* C6: the captured variables of a Distinct / Duplicates / Skip / Limit / Sorted
\* closure are never read or written by two workers.
C6_NoSharedOperatorState ==
  \A id \in DOMAIN sh.cl : Cardinality(sh.cl[id].by \ {Caller}) <= 1

\* C7: after a worker has panicked the parallel call never returns a slice.
C7_NoResultAfterWorkerFailure == pc = "done" => NoWorkerFailed

\* the per-element chain is Peek(f) alone
PeekOnly ==
  /\ Len(fin.source.transform) = 1
  /\ fin.source.transform[1].op = "Peek"

Occurrences(seq, v) == Cardinality({i \in DOMAIN seq : seq[i] = v})

\* C8: with the per-element chain Peek(f), f is never called more often on a value
\* than the source holds it, and once the workers are through it has been called
\* exactly once for each source element (L calls in total), in every interleaving.
C8_PeekOncePerElement ==
  PeekOnly =>
    LET items == fin.source.source.items
    IN  /\ \A v \in Elements : Occurrences(sh.peeks, v) <= Occurrences(items, v)
        /\ pc \in {"finisher", "return", "done"} =>
             /\ Len(sh.peeks) = Len(items)
             /\ \A v \in Elements : Occurrences(sh.peeks, v) = Occurrences(items, v)

C8_Witness ==
  /\ PeekOnly
  /\ pc = "done"
  /\ terminal = "ParallelToStream"
  /\ Len(w) = 2
  /\ fin.source.source.items = <<1, 2>>
  /\ sh.peeks = <<2, 1>>

\* --------------------------------------------------- claims, one caller
\* the pipeline answers false by itself: a finite source, or a Limit on Iterate
Ends(f) ==
  f.source.finite \/ \E k \in DOMAIN f.transform : f.transform[k].op = "Limit"

IsPrefix(a, b) == Len(a) <= Len(b) /\ a = SubSeq(b, 1, Len(a))

\* the caller holds a Finisher and has called nothing but FindFirst and ToSlice, all
\* on this one Finisher value
FindFirstThenToSlice ==
  /\ pc \in {"fin", "loop", "done"}
  /\ terminal \in {"", "ToSlice"}
  /\ firstAt \in {0, Len(held)}

\* C11: successive terminal calls on one Finisher consume one shared pipeline: if a
\* single pass yields e1..ek, the j-th FindFirst returns ej (and is empty past ek),
\* and a ToSlice that follows j FindFirst calls returns exactly e(j+1)..ek.
C11_SharedPipeline ==
  (FindFirstThenToSlice /\ Ends(fin)) =>
    LET single == ToSliceFresh(fin)
        j      == Len(firsts)
    IN  /\ \A i \in DOMAIN firsts :
             firsts[i] = IF i <= Len(single) THEN Optional(TRUE, single[i])
                         ELSE Optional(FALSE, 0)
        /\ pc = "loop" => IsPrefix(Values(firsts) \o result, single)
        /\ pc = "done" => (j <= Len(single) /\ result = SubSeq(single, j + 1, Len(single)))

\* FindFirst, then a ToSlice that returned the rest, on a pipeline with a Sorted stage
\* and one more stateful stage
C11_Witness ==
  /\ pc = "done" /\ terminal = "ToSlice"
  /\ Len(firsts) >= 1 /\ Len(result) >= 1
  /\ Len(fin.transform) = 2
  /\ \E k \in DOMAIN fin.transform : fin.transform[k].op = "Sorted"
  /\ \E k \in DOMAIN fin.transform : fin.transform[k].op \in {"Skip", "Limit", "Filter"}

\* the positions of S that hold the first occurrence of their value
FirstPos(S) == {i \in DOMAIN S : \A j \in 1..(i - 1) : S[j] # S[i]}

\* the elements of S at the positions P, in the order of S
RECURSIVE Pick(_, _, _)
Pick(S, P, i) ==
  IF i > Len(S) THEN <<>>
  ELSE (IF i \in P THEN <<S[i]>> ELSE <<>>) \o Pick(S, P, i + 1)

\* ToSlice has returned on an unused Finisher that is Of(S).AndThen() with nothing
\* but Distinct() or nothing but Duplicates() chained
DistinctOrDuplicatesRan ==
  /\ pc = "done" /\ terminal = "ToSlice" /\ firsts = <<>>
  /\ fin.source.transform = <<>>
  /\ Len(fin.transform) = 1
  /\ fin.transform[1].f \in {"distinct", "duplicates"}

\* C12: Distinct() and Duplicates(), run separately over equal copies of S, assign
\* each position of S to exactly one output: Distinct returns the elements at the
\* first-occurrence positions, Duplicates those at all the other positions.
C12_DistinctDuplicatesPartition ==
  DistinctOrDuplicatesRan =>
    LET S    == fin.source.source.items
        base == AndThen(fin.source)
        d    == IF fin.transform[1].f = "distinct" THEN result
                ELSE ToSliceFresh(Distinct(base))
        u    == IF fin.transform[1].f = "duplicates" THEN result
                ELSE ToSliceFresh(Duplicates(base))
    IN  /\ d = Pick(S, FirstPos(S), 1)
        /\ u = Pick(S, DOMAIN S \ FirstPos(S), 1)
        /\ Len(d) + Len(u) = Len(S)

\* Duplicates() has returned one later occurrence of a source of three elements
C12_Witness ==
  /\ DistinctOrDuplicatesRan
  /\ fin.transform[1].f = "duplicates"
  /\ Len(fin.source.source.items) = 3
  /\ Len(result) = 1

\* the position of the n-th first occurrence in S
NthFirst(S, n) ==
  CHOOSE i \in FirstPos(S) : Cardinality({j \in FirstPos(S) : j <= i}) = n

\* the caller holds Of(S).AndThen().Distinct() and uses it with FindFirst and ToSlice
OnlyDistinct ==
  /\ FindFirstThenToSlice
  /\ fin.source.transform = <<>>
  /\ Len(fin.transform) = 1
  /\ fin.transform[1].f = "distinct"

\* what the pipeline has yielded so far
Yielded == Values(firsts) \o (IF pc = "fin" THEN <<>> ELSE result)

\* the pipeline has not answered false yet
StillOpen == pc \in {"fin", "loop"} /\ \A k \in DOMAIN firsts : firsts[k].present

\* C13: on a fresh pipeline Distinct() yields exactly the first occurrence of each
\* value, in encounter order, and it is streaming: when it has yielded its n-th
\* element it has pulled its upstream up to that element's position and no further.
C13_DistinctFirstOccurrences ==
  OnlyDistinct =>
    LET S == fin.source.source.items
    IN  /\ Yielded = Pick(SubSeq(S, 1, it.pos), FirstPos(S), 1)
        /\ StillOpen =>
             it.calls = IF Yielded = <<>> THEN 0 ELSE NthFirst(S, Len(Yielded))
        /\ pc = "done" => Yielded = Pick(S, FirstPos(S), 1)

\* Distinct has yielded the first element of a source whose second element repeats
\* it, and has pulled nothing else
C13_Witness ==
  /\ OnlyDistinct
  /\ pc = "loop"
  /\ Len(fin.source.source.items) = 3
  /\ fin.source.source.items[2] = fin.source.source.items[1]
  /\ Len(result) = 1
  /\ it.calls = 1

Range(seq) == {seq[i] : i \in DOMAIN seq}

\* stage k of the Finisher's transform was chained by ReverseSorted(IntSortFunc)
ReverseSortedStage(k) ==
  fin.transform[k].op = "Sorted" /\ fin.transform[k].f = "not_lt"

\* C14: ReverseSorted(less) is Sorted with the operands swapped: for all elements a
\* and b it sorts (a = b included) the comparator handed to Sorted returns less(b, a).
C14_ReverseSortedSwapsOperands ==
  \A k \in DOMAIN fin.transform :
    ReverseSortedStage(k) =>
      \A a, b \in Range(sh.cl[k].sorted) :
        Less(fin.transform[k].f, a, b) = Less("lt", b, a)

\* C14 as amended: the comparator ReverseSorted hands to Sorted returns the negation
\* !less(a, b); that is less(b, a) for a # b, and true where less(b, a) is false
\* for a = b.
C14_ReverseSortedNegates ==
  \A k \in DOMAIN fin.transform :
    ReverseSortedStage(k) =>
      \A a, b \in Range(sh.cl[k].sorted) :
        /\ Less(fin.transform[k].f, a, b) = ~Less("lt", a, b)
        /\ a # b => Less(fin.transform[k].f, a, b) = Less("lt", b, a)
        /\ a = b => (Less(fin.transform[k].f, a, b) /\ ~Less("lt", b, a))

\* a ReverseSorted stage has sorted three elements, two of them equal
C14_Witness ==
  \E k \in DOMAIN fin.transform :
    /\ ReverseSortedStage(k)
    /\ Len(sh.cl[k].sorted) = 3
    /\ Cardinality(Range(sh.cl[k].sorted)) = 2

\* the caller holds a Finisher over a finite source whose only Finisher transform is
\* Sorted or ReverseSorted, and uses it with FindFirst and ToSlice
OnlySorted ==
  /\ FindFirstThenToSlice
  /\ fin.source.finite
  /\ Len(fin.transform) = 1
  /\ fin.transform[1].op = "Sorted"

\* no terminal has pulled from the pipeline yet
NotPulledYet == firsts = <<>> /\ (pc = "fin" \/ (pc = "loop" /\ result = <<>>))

\* C15: the iterator of Sorted yields its first element only after its upstream has
\* answered false: the first pull asks the source once more than it has elements
\* (the whole upstream, drained once into the buffer), every later pull leaves the
\* source alone and replays the buffer.
C15_SortedDrainsOnce ==
  OnlySorted =>
    LET L == Len(fin.source.source.items)
        c == sh.cl[1]
    IN  /\ NotPulledYet => (it.calls = 0 /\ ~c.done)
        /\ ~NotPulledYet =>
             /\ it.calls = L + 1
             /\ it.pos = L
             /\ c.done
             /\ Yielded = SubSeq(c.sorted, 1, Len(Yielded))
             /\ c.sortedPos = Len(Yielded)

\* a second pull has replayed the second element of the buffer of a source of three
C15_Witness ==
  /\ OnlySorted
  /\ pc = "loop"
  /\ Len(fin.source.source.items) = 3
  /\ Len(Yielded) = 2
  /\ it.calls = 4

\* element v decides terminal t with predicate f: the predicate is false for
\* AllMatch, true for AnyMatch and NoneMatch
Decides(t, f, v) == IF t = "AllMatch" THEN ~UserPred(f, v) ELSE UserPred(f, v)

\* what the terminal returns once its predicate has seen the elements vs
MatchAnswer(t, f, vs) ==
  CASE t = "AllMatch" -> \A i \in DOMAIN vs : UserPred(f, vs[i])
    [] t = "AnyMatch" -> \E i \in DOMAIN vs : UserPred(f, vs[i])
    [] OTHER          -> \A i \in DOMAIN vs : ~UserPred(f, vs[i])

\* every element pulled from the source reaches the terminal: only Map and Peek
OneToOne ==
  /\ fin.transform = <<>>
  /\ \A k \in DOMAIN fin.source.transform : fin.source.transform[k].op \in {"Map", "Peek"}

RECURSIVE Keep(_, _)
Keep(seq, f) ==
  IF Len(seq) = 0 THEN <<>>
  ELSE (IF UserPred(f, Head(seq)) THEN <<Head(seq)>> ELSE <<>>) \o Keep(Tail(seq), f)

\* what one transform makes of a whole sequence that is handed to it afresh
ApplyStage(st, seq) ==
  CASE st.op = "Filter" /\ st.f = "distinct"   -> Pick(seq, FirstPos(seq), 1)
    [] st.op = "Filter" /\ st.f = "duplicates" -> Pick(seq, DOMAIN seq \ FirstPos(seq), 1)
    [] st.op = "Filter" /\ st.f \notin {"distinct", "duplicates"} -> Keep(seq, st.f)
    [] st.op = "Map"    -> [i \in DOMAIN seq |-> MapFn(st.f, seq[i])]
    [] st.op = "Skip"   -> SubSeq(seq, st.n + 1, Len(seq))
    [] st.op = "Limit"  -> SubSeq(seq, 1, Min(st.n, Len(seq)))
    [] st.op = "Sorted" -> SortSlice(seq, st.f)
    [] OTHER            -> seq

\* stages[n](... stages[1](seq) ...)
RECURSIVE ApplyAll(_, _, _)
ApplyAll(stages, n, seq) ==
  IF n = 0 THEN seq ELSE ApplyStage(stages[n], ApplyAll(stages, n - 1, seq))

\* the elements the source has handed out so far
Consumed ==
  IF it.kind = "gen" THEN Iterates(Seed, sh.gen) ELSE SubSeq(it.items, 1, it.pos)

\* the Stream the caller is building or has called AndThen on
TheStream == IF pc = "stream" THEN Cur ELSE fin.source

PeekAt(p) == TheStream.transform[p].op = "Peek"

\* what the terminal calls so far have been handed by the pipeline
Delivered == IF terminal \in MatchTerminals THEN fcalls ELSE Yielded

\* C17: Peek(f) itself calls f zero times; f is called exactly once for each element
\* pulled through the Peek stage, in encounter order and at the pull (an element that
\* is never pulled never reaches f), and Peek hands every element on unchanged.
C17_PeekOnPull ==
  (pc \in {"stream", "fin", "loop", "match", "done"}) =>
    /\ it.calls = 0 => sh.peeks = <<>>
    /\ \A p \in DOMAIN TheStream.transform :
         (PeekAt(p) /\ \A q \in DOMAIN TheStream.transform : PeekAt(q) => q = p) =>
           /\ sh.peeks = ApplyAll(TheStream.transform, p - 1, Consumed)
           /\ (pc # "stream" /\ p = Len(TheStream.transform) /\ fin.transform = <<>>) =>
                Delivered = sh.peeks

\* after one FindFirst on Of(S).Peek(f).AndThen(), S of three elements, f has been
\* called on the first element only
C17_Witness ==
  /\ pc = "fin"
  /\ Len(firsts) = 1
  /\ Len(fin.source.transform) = 1
  /\ fin.source.transform[1].op = "Peek"
  /\ Len(it.items) = 3
  /\ sh.peeks = <<it.items[1]>>
  /\ it.pos = 1

\* the transforms of a list one after the other
RECURSIVE Concat(_)
Concat(ts) == IF Len(ts) = 0 THEN <<>> ELSE Head(ts) \o Concat(Tail(ts))

\* ToSlice has returned on a Finisher over a finite source that nothing was called
\* on before
FreshPassDone ==
  /\ pc = "done" /\ terminal = "ToSlice" /\ firsts = <<>>
  /\ fin.source.finite

\* C18: transforms are applied in the order they were chained: the Stream's and the
\* Finisher's transform are op1, ..., opk in call order (the first one alone when
\* the transform was empty before), and a pass over the materialised iterator yields
\* opk(...op1(source)...).
C18_ChainingOrder ==
  (pc \in {"stream", "fin", "loop", "match", "done"}) =>
    /\ TheStream.transform \o fin.transform = Concat(ops)
    /\ (Len(ops) = 1 /\ pc = "stream") => Cur.transform = ops[1]
    /\ FreshPassDone =>
         result = ApplyAll(Concat(ops), Len(Concat(ops)), fin.source.source.items)

\* a pass has returned on a pipeline of two transforms whose order matters
C18_Witness ==
  /\ FreshPassDone
  /\ Len(ops) = 2
  /\ Len(result) >= 1
  /\ result # ApplyStage(ops[1][1], ApplyStage(ops[2][1], fin.source.source.items))

\* the last chaining call handed a nil transform to Transform
NilHanded == Len(ops) > 0 /\ ops[Len(ops)] = <<>>

\* C19: a nil transform as the new argument fails fast: Stream.Transform(nil) and
\* Finisher.Transform(nil) panic in the chaining call itself, whether or not an
\* earlier transform is present: the call pulls nothing, calls no user function and
\* gives the caller no new Stream or Finisher.
C19_NilTransformPanics ==
  [][(Len(ops') > Len(ops) /\ ops'[Len(ops')] = <<>>) =>
       /\ pc' = "panicked"
       /\ held' = held
       /\ fin' = fin
       /\ it' = it
       /\ sh' = sh
       /\ firsts' = firsts
       /\ result' = result]_vars

\* Finisher.Transform(nil) has panicked on a Finisher that already has a transform
C19_Witness ==
  /\ pc = "panicked"
  /\ NilHanded
  /\ fin # ZeroFinisher
  /\ Len(fin.transform) = 1

\* C20: a chaining call (Stream.Transform/Filter/FilterNot/Map/Peek, AndThen,
\* Finisher.Transform/Filter/Distinct/Duplicates/Skip/Limit/Sorted/ReverseSorted) does
\* nothing but return a new value: every value the caller held, the receiver among
\* them, is as before, no element is pulled from the source, no user function is
\* called, and the variables earlier chaining calls captured keep their values.
C20_ChainingIsPure ==
  [][Len(held') > Len(held) =>
       /\ SubSeq(held', 1, Len(held)) = held
       /\ it' = it
       /\ sh'.gen = sh.gen
       /\ sh'.peeks = sh.peeks
       /\ \A k \in DOMAIN sh.cl : sh'.cl[k] = sh.cl[k]
       /\ firsts' = firsts
       /\ fcalls' = fcalls
       /\ result' = result]_vars

\* the caller has chained a transform onto a Finisher it had used before, some
\* captured variable of which no longer has its first value
C20_Witness ==
  /\ pc = "fin"
  /\ firstAt # 0
  /\ Len(held) > firstAt
  /\ it.calls > 0
  /\ \E k \in DOMAIN sh.cl : sh.cl[k] # ZeroClosure
\* ------------------------------------------- claims, the folding terminals
\* f(...f(f(acc, e1), e2)..., ek)
RECURSIVE FoldLeft(_, _, _)
FoldLeft(f, acc, seq) ==
  IF Len(seq) = 0 THEN acc ELSE FoldLeft(f, ReduceFn(f, acc, Head(seq)), Tail(seq))

\* C21: Reduce(identity, f) is a left fold in encounter order: on an empty pipeline
\* it returns identity without calling f, and on the elements e1..ek of the pipeline
\* it returns f(...f(f(identity, e1), e2)..., ek), calling f exactly k times, the
\* i-th time with the fold of e1..e(i-1) and ei.
C21_ReduceIsLeftFold ==
  (terminal = "Reduce" /\ pc \in {"loop", "done"}) =>
    LET es == ToSliceFresh(fin)
        n  == Len(fcalls)
    IN  /\ n <= Len(es)
        /\ \A i \in 1..n : fcalls[i] = <<FoldLeft(arg, identity, SubSeq(es, 1, i - 1)), es[i]>>
        /\ result = FoldLeft(arg, identity, SubSeq(es, 1, n))
        /\ pc = "done" =>
             /\ n = Len(es)
             /\ result = FoldLeft(arg, identity, es)
             /\ es = <<>> => (result = identity /\ fcalls = <<>>)

\* Reduce(5, sub) has returned on the example through Filter(i < 5).Map(i * 2):
\* ((((((5 - 2) - 6) - 2) - 4) - 4) - 8), after six calls of f
C21_Witness ==
  /\ terminal = "Reduce" /\ pc = "done"
  /\ arg = "sub" /\ identity = 5
  /\ fin.source.source.items = Example
  /\ Len(fin.source.transform) = 2
  /\ fin.transform = <<>>
  /\ Len(fcalls) = 6
  /\ result = -21

\* Reduce has returned its identity on a pipeline that yields nothing
C21_WitnessEmpty ==
  /\ terminal = "Reduce" /\ pc = "done"
  /\ identity = 5
  /\ Len(fin.source.source.items) = 3
  /\ fcalls = <<>>
  /\ result = 5

\* element i of es is an extreme: no element is above it (Max) or below it (Min)
Extreme(t, f, es, i) ==
  \A j \in DOMAIN es :
    IF t = "Max" THEN ~Less(f, es[i], es[j]) ELSE ~Less(f, es[j], es[i])

\* C22: Max(less) and Min(less) return an empty Optional on an empty pipeline;
\* otherwise Max returns the earliest element m for which no element e satisfies
\* less(m, e), and Min the earliest m for which no e satisfies less(e, m): among
\* tied extremes the first-seen one.  One scan: less is called once per element
\* after the first, with the extreme so far and the element.
C22_MaxMinFirstExtreme ==
  (terminal \in {"Max", "Min"} /\ pc = "done") =>
    LET es == ToSliceFresh(fin)
    IN  /\ es = <<>> => (result = Optional(FALSE, 0) /\ fcalls = <<>>)
        /\ es # <<>> =>
             /\ \E i \in DOMAIN es :
                  /\ Extreme(terminal, arg, es, i)
                  /\ \A j \in 1..(i - 1) : ~Extreme(terminal, arg, es, j)
                  /\ result = Optional(TRUE, es[i])
             /\ Len(fcalls) = Len(es) - 1
             /\ \A k \in DOMAIN fcalls :
                  es[k + 1] = fcalls[k][IF terminal = "Max" THEN 2 ELSE 1]

\* Max has returned the first of two different elements that tie under less
C22_Witness ==
  /\ terminal = "Max" /\ pc = "done"
  /\ arg = "lt_mod2"
  /\ ToSliceFresh(fin) = <<2, 4>>
  /\ result = Optional(TRUE, 2)

\* ToSlice has returned on Of(1,3,1,2,9,7,2,4,7,5,8,6,8).Filter(i < 5).Map(i * 2).AndThen()
ExampleRan ==
  /\ terminal = "ToSlice" /\ pc = "done"
  /\ fin.source.source.items = Example
  /\ fin.source.transform = <<Stage("Filter", "lt5", 0, 0), Stage("Map", "dbl", 0, 0)>>
  /\ fin.transform = <<>>

\* C23: for the input [1,3,1,2,9,7,2,4,7,5,8,6,8], Filter(x<5) and then Map(x*2)
\* yield, order preserved and before any whole-sequence operation, the sequence
\* [2,6,2,4,8,4,10,12].
C23_ExampleAsStated == ExampleRan => result = <<2, 6, 2, 4, 8, 4, 10, 12>>

\* C23 as amended: they yield [2,6,2,4,4,8], the doubles of the elements below 5 in
\* source order (which Distinct and Sorted turn into the [2,4,6,8] of the doc comment).
C23_ExampleYields ==
  ExampleRan =>
    /\ result = <<2, 6, 2, 4, 4, 8>>
    /\ result = [i \in 1..Len(Keep(Example, "lt5")) |-> 2 * Keep(Example, "lt5")[i]]
    /\ SortSlice(Pick(result, FirstPos(result), 1), "lt") = <<2, 4, 6, 8>>

C23_Witness == ExampleRan /\ Len(result) = 6 /\ it.pos = Len(Example)

\* ------------------------------------------------- claims, inside doParallel
\* doParallel has taken the branch that splits, and wg.Wait() has returned
PastBarrier == transform # <<>> /\ pc \in {"finisher", "return", "done"}

\* C24: in every interleaving the flattening of the result array (and the
\* whole-sequence transform after it) begins only after every launched worker has
\* written its slot and signalled completion; wg.Wait cannot return while a worker
\* is still running or not yet started.
C24_FlattenAfterAllWorkers ==
  PastBarrier =>
    /\ Len(w) = Len(splitData)
    /\ \A i \in DOMAIN w : w[i].st = "exited"

\* the rows the split returned, before any worker has touched the array
OriginalRows ==
  LET a   == Args(terminal, fin)
      src == Drain(a.source, Len(a.source), SourceIter(fin.source.source), ZeroShared(fin),
                   Caller, <<>>)
  IN  Split(src.out, NumberOf(numItems), flag)

\* worker i has executed splitData[i] = ...
Wrote(i) == w[i].st \in {"written", "exited"}

\* C25: doParallel launches exactly one worker per partition; worker i writes the
\* result array only at index i and exactly once (a slot holds its worker's output
\* once that worker has written and the partition before that), and every slot
\* holds its worker's output by the time the barrier is passed.
C25_OneWorkerOneSlot ==
  (transform # <<>> /\ pc # "crashed") =>
    /\ Len(splitData) = Len(OriginalRows)
    /\ Len(w) = next - 1
    /\ pc \notin {"call", "launch"} => Len(w) = Len(splitData)
    /\ \A i \in DOMAIN splitData :
         splitData[i] = IF i \in DOMAIN w /\ Wrote(i) THEN w[i].out ELSE OriginalRows[i]
    /\ PastBarrier => \A i \in DOMAIN splitData : (Wrote(i) /\ splitData[i] = w[i].out)

\* C26: when the Stream carries no per-element transform, doParallel performs no
\* partitioning and launches no worker, for both flags and any numItems: the result
\* is the source's elements in source order, passed exactly once through the
\* whole-sequence transform if one is present.
C26_NoTransformNoWorkers ==
  fin.source.transform = <<>> =>
    /\ splitData = <<>> /\ w = <<>> /\ wg = 0
    /\ pc \notin {"launch", "wait"}
    /\ pc \in {"return", "done"} => finRuns = (IF fin.transform = <<>> THEN 0 ELSE 1)
    /\ pc = "done" =>
         Items = Drain(fin.transform, Len(fin.transform), OfElements(fin.source.source.items),
                       ZeroShared(fin), Caller, <<>>).out

\* C30: doParallel reuses the partition array as its result array, yet in every
\* interleaving worker i receives as input the original partition i: the launch
\* loop reads slot i before worker i is started and the workers started so far
\* write only slots below i, so every slot the loop has still to read holds its
\* partition, and no slot is written while it is read.
C30_WorkerGetsOwnPartition ==
  (transform # <<>> /\ pc # "crashed") =>
    LET rows == OriginalRows
    IN  /\ Len(w) = next - 1
        /\ \A i \in DOMAIN w : w[i].it.items = rows[i]
        /\ \A k \in next..Len(splitData) : splitData[k] = rows[k]

\* worker 1 has stored a row that differs from its partition while the launch loop
\* has still to read slot 2
C30_Witness ==
  /\ pc = "launch"
  /\ next = 2
  /\ Len(splitData) >= 2
  /\ w[1].st = "exited"
  /\ splitData[1] # OriginalRows[1]
  /\ splitData[2] = OriginalRows[2]

\* no per-element function of the pipeline panics
FunctionsReturn ==
  \A k \in DOMAIN fin.source.transform : fin.source.transform[k].f # "boom"

\* the calling goroutine is not blocked
CallerCanStep == pc \in {"call", "launch", "finisher", "return"} \/ (pc = "wait" /\ wg = 0)

\* worker i has not run to its end
WorkerCanStep(i) == pc # "crashed" /\ w[i].st \in {"run", "written", "panicking"}

\* the state in which Scheduled is enabled
CanStep ==
  \/ CallerCanStep
  \/ \E i \in DOMAIN w : WorkerCanStep(i)
  \/ (pc # "crashed" /\ \E i \in DOMAIN w : w[i].st = "dying")

\* how far worker i is from its end
WorkerRank(i) ==
  CASE w[i].st = "run"       -> 3 + MaxLen - Len(w[i].out)
    [] w[i].st = "written"   -> 1
    [] w[i].st = "panicking" -> 2
    [] w[i].st = "dying"     -> 1
    [] OTHER                 -> 0

RECURSIVE SumRanks(_)
SumRanks(i) == IF i = 0 THEN 0 ELSE WorkerRank(i) + SumRanks(i - 1)

\* a bound on the number of steps left, zero when none is
Measure ==
  IF pc \in {"crashed", "panicked"} THEN 0
  ELSE SumRanks(Len(w))
       + (CASE pc = "call"     -> 5 + (MaxLen + 1) * (MaxLen + 5)
            [] pc = "launch"   -> 4 + (Len(splitData) - next + 1) * (MaxLen + 5)
            [] pc = "wait"     -> 4
            [] pc = "finisher" -> 3
            [] pc = "return"   -> 2
            [] OTHER           -> 1)

\* every step of doParallel brings it nearer to its end: there is no livelock
DoParallelProgress == [][Measure' < Measure /\ CanStep]_vars

\* C29: for a finite source and per-element functions that return, every execution
\* of doParallel under fair scheduling (SpecFair) eventually returns: every launched
\* worker calls Done, the WaitGroup counter returns to zero, Wait is released and
\* no interleaving deadlocks.  As no behaviour takes infinitely many steps
\* (DoParallelProgress), this is that a state from which no goroutine can take a
\* step is the return of the terminal.
C29_DoParallelReturns == (FunctionsReturn /\ ~CanStep) => pc = "done"

\* ----------------------------------------------------- claims, the protocol
\* a value the caller holds is a Stream (a Finisher has no finite field)
IsStream(v) == "finite" \in DOMAIN v

\* how many Streams the caller holds: the constructor's and one per chaining call
Streams == Cardinality({k \in DOMAIN held : IsStream(held[k])})

\* C27: every Stream value reachable from a constructor through any sequence of
\* Transform/Filter/FilterNot/Map/Peek calls carries the finite flag set by its
\* constructor (true for Of and OfIterables, whose source is a fixed list, false
\* for Iterate, whose source is a generator), and the same source; AndThen stores
\* that Stream, flag included, unchanged as the Finisher's source, and so does
\* every Finisher chained from it.
C27_FiniteFlagPropagates ==
  /\ held[1].finite = (held[1].source.kind = "slice")
  /\ \A k \in DOMAIN held :
       IF k <= Streams
       THEN /\ IsStream(held[k])
            /\ held[k].finite = held[1].finite
            /\ held[k].source = held[1].source
       ELSE /\ ~IsStream(held[k])
            /\ held[k].source = held[Streams]
  /\ pc \notin {"stream", "panicked"} => fin.source = held[Streams]

\* the caller holds a Finisher chained from AndThen on a finite Stream that went
\* through two chaining calls
C27_Witness ==
  /\ pc = "fin"
  /\ Streams = 3
  /\ Len(held) = 4
  /\ held[1].finite
  /\ fin.source.finite
  /\ Len(fin.source.transform) = 2

\* the caller has called at most one terminal method, and it was a sequential one
SingleTerminal ==
  /\ terminal \notin ParTerminals
  /\ firsts = <<>> \/ (Len(firsts) = 1 /\ terminal = "")

\* C28: within a single sequential terminal operation on a pipeline whose source
\* has not answered false before, no iterator in the chain (the source or any
\* Filter, Map, Peek, Distinct, Skip, Limit or Sorted stage, in any combination) has
\* Next called on it again after it has answered false; a finite source of L
\* elements is asked at most L + 1 times.
C28_NoNextAfterFalse ==
  SingleTerminal =>
    /\ it.again = {}
    /\ it.kind = "slice" => it.calls <= Len(it.items) + 1
    /\ 0 \in it.ended <=> (it.kind = "slice" /\ it.calls = Len(it.items) + 1)

\* ToSlice has returned on a pipeline with a Sorted stage and a second Finisher
\* stage, after the source and every iterator on top of it have answered false
C28_Witness ==
  /\ SingleTerminal
  /\ pc = "done" /\ terminal = "ToSlice"
  /\ Len(fin.transform) = 2
  /\ \E k \in DOMAIN fin.transform : fin.transform[k].op = "Sorted"
  /\ Len(fin.source.source.items) = 3
  /\ it.ended = 0..Len(FinisherIter(fin))
====
